---- MODULE Spec2Model ----
(***************************************************************************)
(* Bounding volume hierarchy (CS350::Bvh<T>) of bvh.hpp / bvh.inl.         *)
(*                                                                         *)
(* Nodes live in a store indexed by node id (the address of the C++ Node), *)
(* objects are the caller's Object records with the intrusive bvhInfo      *)
(* triple.  NULL (0) is nullptr.  Coordinates are small integers, so every *)
(* float the code computes (volumes, costs, entry times) is exact.         *)
(***************************************************************************)
EXTENDS Integers, Sequences, FiniteSets, TLC

\* ------------------------------------------------------------------ bounds
NumObjs == 3      \* number of scene objects the caller owns
MaxNodes == 10    \* size of the node store (live + leaked nodes)
MaxLevel == 4     \* recursion levels of BuildTopDown before the stack is taken to be exhausted
MaxRebuilds == 1  \* calls of BuildTopDown on a tree that is not empty
MaxSame == 11     \* objects of the scenes in which every object has the same box
MaxShuffled == 4  \* longest range of which every order std::sort may leave is followed

\* --------------------------------------------------------------- constants
NULL == 0                \* nullptr
FLT_MAX == 1000000       \* std::numeric_limits<float>::max(): above every entry time
Milli == 1000            \* costs are compared in thousandths
cEpsilon3Milli == 1      \* cEpsilon3 = 1e-3f, in thousandths
Half == 65536            \* an unsigned is two 16-bit halves
HalfTop == 32768         \* a high half from here on has the sign bit set

\* a 32-bit unsigned value hi * 2^16 + lo
U32(hi, lo) == [hi |-> hi, lo |-> lo]

\* the unsigned value of a small natural number
U32Of(n) == U32(n \div Half, n % Half)

\* a >= b on unsigned values
GeqU32(a, b) == a.hi > b.hi \/ (a.hi = b.hi /\ a.lo >= b.lo)

\* std::numeric_limits<unsigned>::max()
UINT_MAX == U32(Half - 1, Half - 1)

Objs == 1..NumObjs

\* the objects of the scenes in which every object has the same box
SameObjs == 1..MaxSame
NodeIds == 1..MaxNodes

\* ---------------------------------------------------------------- geometry
Min2(a, b) == IF b < a THEN b ELSE a
Max2(a, b) == IF a < b THEN b ELSE a

VMin(u, v) == [i \in 1..3 |-> Min2(u[i], v[i])]
VMax(u, v) == [i \in 1..3 |-> Max2(u[i], v[i])]

Aabb(mn, mx) == [min |-> mn, max |-> mx]

\* Aabb(a, b): the merge constructor
AabbMerge(a, b) == Aabb(VMin(a.min, b.min), VMax(a.max, b.max))

volume(bv) ==
    (bv.max[1] - bv.min[1]) * (bv.max[2] - bv.min[2]) * (bv.max[3] - bv.min[3])

\* index (1..3) of the largest extent, the lower index on a tie
longest_axis(bv) ==
    LET e == [i \in 1..3 |-> bv.max[i] - bv.min[i]]
    IN  IF e[1] >= e[2] /\ e[1] >= e[3] THEN 1
        ELSE IF e[2] >= e[3] THEN 2 ELSE 3

\* twice get_center()[axis]: the order of centres is the order of these
center2(bv, axis) == bv.min[axis] + bv.max[axis]

\* N.bv encloses C.bv componentwise
Encloses(outer, inner) ==
    \A i \in 1..3 : outer.min[i] <= inner.min[i] /\ outer.max[i] >= inner.max[i]

\* the scene the caller made its objects for, fixed at construction
VARIABLE scene

\* "corner": objects 1 and 3 share a box, object 2 touches it.
\* "spread": three boxes apart, so that the box of two of them has a gap.
Scenes == {"corner", "spread"}

\* "same": every object has the unit box.  "flat": every object has the same
\* box of no volume.
SameScenes == {"same", "flat"}

\* The scene: Object::bv of each object (immutable while in the tree)
ObjBv(o) ==
    IF scene = "same" THEN Aabb(<<0, 0, 0>>, <<1, 1, 1>>)
    ELSE IF scene = "flat" THEN Aabb(<<0, 0, 0>>, <<1, 1, 0>>)
    ELSE IF scene = "corner"
    THEN CASE o = 1 -> Aabb(<<0, 0, 0>>, <<2, 2, 2>>)
           [] o = 2 -> Aabb(<<2, 0, 0>>, <<4, 2, 2>>)
           [] o = 3 -> Aabb(<<0, 0, 0>>, <<2, 2, 2>>)
           [] o = 4 -> Aabb(<<6, 0, 0>>, <<8, 4, 2>>)
           [] OTHER -> Aabb(<<0, 2 * (o - 3), 0>>, <<4, 2 * (o - 2), 2>>)
    ELSE CASE o = 1 -> Aabb(<<0, 0, 0>>, <<2, 2, 2>>)
           [] o = 2 -> Aabb(<<3, 3, 0>>, <<5, 5, 2>>)
           [] o = 3 -> Aabb(<<6, -3, 0>>, <<8, -1, 2>>)
           [] o = 4 -> Aabb(<<3, 0, 0>>, <<5, 2, 2>>)
           [] OTHER -> Aabb(<<0, 2 * (o - 3), 0>>, <<4, 2 * (o - 2), 2>>)

\* Object::id of each object: consecutive ids, `base` is their common high half
ObjIdFrom(base, o) == U32(base, o - 1)

\* ------------------------------------------------------------------- state
VARIABLES
    nodes,          \* node id -> Node {bv, children[2], firstObject, lastObject}
    allocated,      \* ids of the nodes that new has returned and delete has not freed
    objs,           \* object -> bvhInfo {next, prev, node}
    mRoot,          \* Bvh::mRoot
    mObjectCount,   \* Bvh::mObjectCount
    crashed,        \* the process died (null dereference, stack exhaustion)
    threw,          \* the last operation ended by throwing std::runtime_error
    inTree,         \* objects handed to the tree since it was last empty
    everPassed,     \* objects ever handed to BuildTopDown or Insert
    idBase,         \* high half of the objects' ids
    rebuilds,       \* calls of BuildTopDown on a populated tree so far
    lastOp,         \* the operation that produced this state
    qFrustum,       \* Query: the frustum
    qResult,        \* Query: the returned ids
    qTests,         \* Query: Stats::frustumVsAabb
    rRay,           \* QueryDebug: the ray
    rClosestOnly,   \* QueryDebug: closest_only
    rReturn,        \* QueryDebug: <<id>> or <<>> (std::nullopt)
    rAll,           \* QueryDebug: allIntersectedObjects
    rTested,        \* QueryDebug: debug_tested_nodes
    rTests          \* QueryDebug: Stats::rayVsAabb

treeVars == <<scene, nodes, allocated, objs, mRoot, mObjectCount, crashed, threw, inTree,
              everPassed, idBase, rebuilds>>
queryVars == <<qFrustum, qResult, qTests>>
rayVars == <<rRay, rClosestOnly, rReturn, rAll, rTested, rTests>>
vars == <<treeVars, lastOp, queryVars, rayVars>>

\* Node(Aabb boundingVolume)
Node(boundingVolume) ==
    [bv |-> boundingVolume, children |-> <<NULL, NULL>>,
     firstObject |-> NULL, lastObject |-> NULL]

\* contents of a store slot that holds no node
NoNode == Node(Aabb(<<0, 0, 0>>, <<0, 0, 0>>))

\* Object::bvhInfo as constructed
NoInfo == [next |-> NULL, prev |-> NULL, node |-> NULL]

\* The heap the operations work on.  full: the node store of the model ran out.
Heap ==
    [nodes |-> nodes, alloc |-> allocated, objs |-> objs, root |-> mRoot,
     count |-> mObjectCount, crashed |-> crashed, threw |-> FALSE, full |-> FALSE]

\* new Node(bv): the lowest free id; <<heap, id>>
NewNode(h, bv) ==
    LET free == NodeIds \ h.alloc
    IN  IF free = {} THEN <<[h EXCEPT !.full = TRUE], NULL>>
        ELSE LET id == CHOOSE i \in free : \A j \in free : i <= j
             IN  <<[h EXCEPT !.nodes[id] = Node(bv), !.alloc = @ \cup {id}], id>>

\* Node::AddObject without the lastObject->bvhInfo.next = object link
AddObjectNoAppendLink(h, n, object) ==
    IF h.objs[object].node = n THEN h
    ELSE [h EXCEPT !.objs[object] = [prev |-> h.nodes[n].lastObject, next |-> NULL, node |-> n],
                   !.nodes[n].firstObject = IF @ = NULL THEN object ELSE @,
                   !.nodes[n].lastObject = object]

\* Node::AddObject on node n
\* an AddObject that links the object in front of the node's list
AddObjectAtFront(h, n, object) ==
    IF h.objs[object].node = n THEN h
    ELSE
        LET first == h.nodes[n].firstObject
            last == h.nodes[n].lastObject
            o3 == [h.objs EXCEPT ![object] = [prev |-> NULL, next |-> first, node |-> n]]
            o4 == IF first /= NULL THEN [o3 EXCEPT ![first].prev = object] ELSE o3
        IN  [h EXCEPT !.objs = o4,
                      !.nodes[n].firstObject = object,
                      !.nodes[n].lastObject = IF last = NULL THEN object ELSE last]

AddObject(h, n, object) ==
    IF h.objs[object].node = n THEN h
    ELSE
        LET info == h.objs[object]
            o1 == IF info.node /= NULL /\ info.prev /= NULL
                  THEN [h.objs EXCEPT ![info.prev].next = info.next,
                                      ![object].prev = NULL]
                  ELSE h.objs
            o2 == IF info.node /= NULL /\ o1[object].next /= NULL
                  THEN [o1 EXCEPT ![o1[object].next].prev = o1[object].prev,
                                  ![object].next = NULL]
                  ELSE o1
            first == IF h.nodes[n].firstObject = NULL THEN object
                     ELSE h.nodes[n].firstObject
            last == h.nodes[n].lastObject
            o3 == [o2 EXCEPT ![object] = [prev |-> last, next |-> NULL, node |-> n]]
            o4 == IF last /= NULL THEN [o3 EXCEPT ![last].next = object] ELSE o3
        IN  [h EXCEPT !.objs = o4,
                      !.nodes[n].firstObject = first,
                      !.nodes[n].lastObject = object]

\* Node::IsLeaf
IsLeaf(h, n) == h.nodes[n].children[1] = NULL

\* Node::Depth
RECURSIVE NodeDepth(_, _)
NodeDepth(h, n) ==
    IF IsLeaf(h, n) THEN 0
    ELSE LET c0 == h.nodes[n].children[1]
             c1 == h.nodes[n].children[2]
             child0Depth == IF c0 /= NULL THEN NodeDepth(h, c0) ELSE 0
             child1Depth == IF c1 /= NULL THEN NodeDepth(h, c1) ELSE 0
         IN  1 + Max2(child0Depth, child1Depth)

\* Node::Size; children[1] is dereferenced unchecked: -1 stands for the crash
RECURSIVE NodeSize(_, _)
NodeSize(h, n) ==
    IF IsLeaf(h, n) THEN 1
    ELSE IF h.nodes[n].children[2] = NULL THEN -1
    ELSE LET s0 == NodeSize(h, h.nodes[n].children[1])
             s1 == NodeSize(h, h.nodes[n].children[2])
         IN  IF s0 < 0 \/ s1 < 0 THEN -1 ELSE 1 + s0 + s1

\* the objects met from `object` by next links, at most `fuel` of them
RECURSIVE Walk(_, _, _)
Walk(os, object, fuel) ==
    IF object = NULL \/ fuel = 0 THEN <<>>
    ELSE <<object>> \o Walk(os, os[object].next, fuel - 1)

\* the walk from `object` never reaches null
Endless(os, object) ==
    Len(Walk(os, object, Cardinality(DOMAIN os) + 1)) > Cardinality(DOMAIN os)

\* the object list of node n, walked as Node::ObjectCount walks it
ObjectsOf(h, n) ==
    Walk(h.objs, h.nodes[n].firstObject, Cardinality(DOMAIN h.objs) + 1)

\* Node::ObjectCount
ObjectCount(h, n) == Len(ObjectsOf(h, n))

\* Node::TraverseLevelOrder: the nodes in the order func is applied to them
RECURSIVE LevelOrderFrom(_, _)
LevelOrderFrom(h, queue) ==
    IF queue = <<>> THEN <<>>
    ELSE LET node == Head(queue)
             c0 == h.nodes[node].children[1]
             c1 == h.nodes[node].children[2]
             q1 == IF c0 /= NULL THEN Append(Tail(queue), c0) ELSE Tail(queue)
             q2 == IF c1 /= NULL THEN Append(q1, c1) ELSE q1
         IN  <<node>> \o LevelOrderFrom(h, q2)

TraverseLevelOrder(h, n) == LevelOrderFrom(h, <<n>>)

\* concatenation of the object lists of the nodes of ns that are leaves
RECURSIVE LeafObjects(_, _)
LeafObjects(h, ns) ==
    IF ns = <<>> THEN <<>>
    ELSE (IF IsLeaf(h, Head(ns)) THEN ObjectsOf(h, Head(ns)) ELSE <<>>)
         \o LeafObjects(h, Tail(ns))

\* Node::TraverseLevelOrderObjects with a func that does not modify the objects
TraverseLevelOrderObjects(h, n) == LeafObjects(h, TraverseLevelOrder(h, n))

\* ------------------------------------------------------------ BuildTopDown
\* BvhBuildConfig values the callers use
\* maxDepth is an unsigned value, minObjects a small count, minVolume a volume
Config(maxDepth, minObjects, minVolume) ==
    [maxDepth |-> maxDepth, minObjects |-> minObjects, minVolume |-> minVolume]

DefaultConfig == Config(UINT_MAX, 10, 0)

\* the configurations of the tests
cTopDownConfig == Config(UINT_MAX, 20, 250)
cInsertConfig == Config(U32Of(100), 1, 1000)

Configs ==
    { DefaultConfig,
      Config(UINT_MAX, 1, 0),
      Config(U32Of(1), 1, 8),
      Config(U32Of(2), 0, 0),
      Config(UINT_MAX, 0, 0),
      Config(UINT_MAX, 2, 16) }

\* the ranges [begin, end): sequences of distinct objects
Ranges ==
    UNION { { r \in [1..n -> Objs] : \A i, j \in 1..n : i /= j => r[i] /= r[j] }
            : n \in 1..NumObjs }

SeqSet(r) == { r[i] : i \in 1..Len(r) }

\* the box of the first object of the range only
RangeBvOfFirst(range) == ObjBv(range[1])

\* the enclosing Aabb of a non-empty range (the min/max pass of BuildTopDown)
RECURSIVE RangeBv(_)
RangeBv(range) ==
    IF Len(range) = 1 THEN ObjBv(range[1])
    ELSE LET rest == RangeBv(SubSeq(range, 1, Len(range) - 1))
             last == ObjBv(range[Len(range)])
         IN  Aabb(VMin(rest.min, last.min), VMax(rest.max, last.max))

\* the stopping test without the depth
StopConditionNoDepth(countObject, workingVolume, currentDepth, config) ==
    \/ countObject <= config.minObjects
    \/ workingVolume <= config.minVolume

\* the stopping test without the volume
StopConditionNoVolume(countObject, workingVolume, currentDepth, config) ==
    \/ countObject <= config.minObjects
    \/ GeqU32(U32Of(currentDepth), config.maxDepth)

\* the stopping test of BuildTopDown
StopCondition(countObject, workingVolume, currentDepth, config) ==
    \/ countObject <= config.minObjects
    \/ workingVolume <= config.minVolume
    \/ GeqU32(U32Of(currentDepth), config.maxDepth)

\* object o put into an ascending sequence, behind the elements it is not less than
RECURSIVE InsertSorted(_, _, _)
InsertSorted(sorted, o, axis) ==
    IF sorted = <<>> THEN <<o>>
    ELSE IF center2(ObjBv(o), axis) < center2(ObjBv(Head(sorted)), axis)
    THEN <<o>> \o sorted
    ELSE <<Head(sorted)>> \o InsertSorted(Tail(sorted), o, axis)

\* the ascending order that keeps elements with equal centres as they were
RECURSIVE StableOrder(_, _)
StableOrder(range, axis) ==
    IF range = <<>> THEN <<>>
    ELSE InsertSorted(StableOrder(SubSeq(range, 1, Len(range) - 1), axis),
                      range[Len(range)], axis)

\* every order std::sort may leave the range in: ascending centre along axis,
\* elements with equal centres in any order.  Of a range longer than
\* MaxShuffled only the order that keeps equal centres in place is followed.
SortedOrders(range, axis) ==
    LET n == Len(range)
    IN  IF n > MaxShuffled THEN {StableOrder(range, axis)}
        ELSE { p \in [1..n -> SeqSet(range)] :
                 /\ \A i, j \in 1..n : i /= j => p[i] /= p[j]
                 /\ \A i \in 1..(n - 1) :
                      ~ (center2(ObjBv(p[i + 1]), axis) < center2(ObjBv(p[i]), axis)) }

\* static_cast<int>(objects.size() * 0.5f)
SplitIndex(n) == n \div 2

\* workingNode->AddObject(range[i]) for i from `from` to the end of the range
RECURSIVE AddObjectsFrom(_, _, _, _)
AddObjectsFrom(h, n, range, from) ==
    IF from > Len(range) THEN h
    ELSE AddObjectsFrom(AddObject(h, n, range[from]), n, range, from + 1)

\* the leaf loop started at begin + 1
AddObjectsAfterFirst(h, n, range) == AddObjectsFrom(h, n, range, 2)

\* the leaf loop: workingNode->AddObject(*it) for it in [begin, end)
RECURSIVE AddObjects(_, _, _)
AddObjects(h, n, range) ==
    IF range = <<>> THEN h
    ELSE AddObjects(AddObject(h, n, Head(range)), n, Tail(range))

\* the first object's former node loses its firstObject and lastObject
ClearFormerNode(h, first) ==
    LET former == h.objs[first].node
    IN  IF former /= NULL /\ former \in h.alloc
        THEN [h EXCEPT !.nodes[former].firstObject = NULL,
                       !.nodes[former].lastObject = NULL]
        ELSE h

\* the attachment that takes the second slot of a parent that is full
AttachOverSecond(h, workingNode, parentNode) ==
    IF parentNode /= NULL
    THEN IF h.nodes[parentNode].children[1] = NULL
         THEN [h EXCEPT !.nodes[parentNode].children[1] = workingNode]
         ELSE [h EXCEPT !.nodes[parentNode].children[2] = workingNode]
    ELSE [h EXCEPT !.root = workingNode]

\* the attachment that leaves a root there is in place
AttachKeepsRoot(h, workingNode, parentNode) ==
    IF parentNode /= NULL
    THEN IF h.nodes[parentNode].children[1] = NULL
         THEN [h EXCEPT !.nodes[parentNode].children[1] = workingNode]
         ELSE IF h.nodes[parentNode].children[2] = NULL
         THEN [h EXCEPT !.nodes[parentNode].children[2] = workingNode]
         ELSE [h EXCEPT !.threw = TRUE]
    ELSE IF h.root = NULL THEN [h EXCEPT !.root = workingNode] ELSE h

\* the attachment of workingNode to parentNode, or as the root
Attach(h, workingNode, parentNode) ==
    IF parentNode /= NULL
    THEN IF h.nodes[parentNode].children[1] = NULL
         THEN [h EXCEPT !.nodes[parentNode].children[1] = workingNode]
         ELSE IF h.nodes[parentNode].children[2] = NULL
         THEN [h EXCEPT !.nodes[parentNode].children[2] = workingNode]
         ELSE [h EXCEPT !.nodes[workingNode] = NoNode,
                        !.alloc = @ \ {workingNode},
                        !.threw = TRUE]
    ELSE [h EXCEPT !.root = workingNode]

\* Bvh::BuildTopDown(begin, end, config, parentNode): the heaps it can end in.
\* lvl counts the recursion; beyond MaxLevel the call stack is exhausted.
RECURSIVE BuildTopDownRec(_, _, _, _, _)
BuildTopDownRec(h, range, config, parentNode, lvl) ==
    IF h.crashed \/ h.threw \/ h.full \/ range = <<>> THEN {h}
    ELSE IF lvl > MaxLevel THEN {[h EXCEPT !.crashed = TRUE]}
    ELSE
        LET countObject == Len(range)
            made == NewNode(h, RangeBv(range))
            workingNode == made[2]
            h1 == IF made[1].full THEN made[1]
                  ELSE Attach(made[1], workingNode, parentNode)
            h2 == IF workingNode = h1.root
                  THEN [h1 EXCEPT !.count = countObject] ELSE h1
        IN  IF h1.full \/ h1.threw THEN {h1}
            ELSE IF h2.root = NULL THEN {[h2 EXCEPT !.crashed = TRUE]}
            ELSE IF StopCondition(countObject, volume(h2.nodes[workingNode].bv),
                                  NodeDepth(h2, h2.root), config)
            THEN {AddObjects(ClearFormerNode(h2, range[1]), workingNode, range)}
            ELSE
                LET axis == longest_axis(h2.nodes[workingNode].bv)
                    splitIndex == SplitIndex(countObject)
                IN  UNION { UNION { BuildTopDownRec(h3,
                                        SubSeq(objects, splitIndex + 1, countObject),
                                        config, workingNode, lvl + 1)
                                    : h3 \in BuildTopDownRec(h2,
                                        SubSeq(objects, 1, splitIndex),
                                        config, workingNode, lvl + 1) }
                            : objects \in SortedOrders(range, axis) }

\* ------------------------------------------------------------------ Insert
\* NodeCosts::NodeCosts(_node, object, costToNode, _level)
NodeCosts(h, node, object, costToNode, level) ==
    LET newAabb == AabbMerge(h.nodes[node].bv, ObjBv(object))
        newGeometrics == volume(newAabb)
        newGeometricsChange == newGeometrics - volume(h.nodes[node].bv)
    IN  [node |-> node, level |-> level, newAabb |-> newAabb,
         newGeometrics |-> newGeometrics,
         newGeometricsChange |-> newGeometricsChange,
         rootToNewParentCost |-> newGeometrics + costToNode,
         rootToNodeCost |-> costToNode + newGeometricsChange]

\* stands for NodeCosts built on a null child: the constructor reads node->bv
NullCosts == [node |-> NULL]

\* the children the priority queue may hand out next: highest level first
\* (always the two just pushed), then least newGeometricsChange; on a tie either
TopOfQueue(n0, n1) ==
    { k \in {n0, n1} :
        \A m \in {n0, n1} : ~ (k.newGeometricsChange > m.newGeometricsChange) }

\* the search loop: every cheapestPath it can record from nodeCost down to a leaf
RECURSIVE CheapestPaths(_, _, _)
CheapestPaths(h, object, nodeCost) ==
    IF IsLeaf(h, nodeCost.node) THEN {<<nodeCost>>}
    ELSE IF h.nodes[nodeCost.node].children[2] = NULL THEN {<<nodeCost, NullCosts>>}
    ELSE
        LET n0 == NodeCosts(h, h.nodes[nodeCost.node].children[1], object,
                            nodeCost.rootToNodeCost, nodeCost.level + 1)
            n1 == NodeCosts(h, h.nodes[nodeCost.node].children[2], object,
                            nodeCost.rootToNodeCost, nodeCost.level + 1)
        IN  UNION { { <<nodeCost>> \o p : p \in CheapestPaths(h, object, k) }
                    : k \in TopOfQueue(n0, n1) }

\* smallestCostIndex after the entries 1..i of the path have been looked at
RECURSIVE SmallestCostIndex(_, _)
SmallestCostIndex(path, i) ==
    IF i = 1 THEN 1
    ELSE LET s == SmallestCostIndex(path, i - 1)
         IN  IF Milli * path[i].rootToNewParentCost
                  <= Milli * path[s].rootToNewParentCost + cEpsilon3Milli
             THEN i ELSE s

\* the path's nodes keep their boxes
CommitNothing(h, path, upto) == h

\* nodeCost.node->bv = nodeCost.newAabb for the entries 1..upto of the path
RECURSIVE CommitPath(_, _, _)
CommitPath(h, path, upto) ==
    IF upto = 0 THEN h
    ELSE [CommitPath(h, path, upto - 1) EXCEPT
            !.nodes[path[upto].node].bv = path[upto].newAabb]

\* the two append branches: grow every node of the path, add to the leaf
AppendToLeaf(h, path, object) ==
    AddObject(CommitPath(h, path, Len(path)), path[Len(path)].node, object)

\* the leaf is split instead of appended to
SplitLeaf(leafNode, config) ==
    volume(leafNode.newAabb) >= config.minVolume /\ leafNode.newGeometricsChange > 0

\* the leaf takes the object without a split
LeafTakes(h, leafNode, config) ==
    \/ ObjectCount(h, leafNode.node) < config.minObjects
    \/ GeqU32(U32Of(leafNode.level), config.maxDepth)

\* a new internal node above path[index] that always keeps the old node as
\* its first child
NewParentOldFirst(h, path, index, object) ==
    LET best == path[index]
        madeP == NewNode(h, best.newAabb)
        newParent == madeP[2]
        madeL == NewNode(madeP[1], ObjBv(object))
        newLeaf == madeL[2]
        hm == madeL[1]
    IN  IF hm.full THEN hm
        ELSE IF best.node = h.root
        THEN AddObject([hm EXCEPT !.root = newParent,
                                  !.nodes[newParent].children = <<best.node, newLeaf>>],
                       newLeaf, object)
        ELSE
            LET hc == CommitPath(hm, path, index - 1)
                parentNode == path[index - 1].node
                child == IF hc.nodes[parentNode].children[1] /= best.node THEN 2 ELSE 1
            IN  AddObject([hc EXCEPT
                             !.nodes[parentNode].children[child] = newParent,
                             !.nodes[newParent].children = <<best.node, newLeaf>>],
                          newLeaf, object)

\* a new internal node above path[index]
NewParent(h, path, index, object) ==
    LET best == path[index]
        madeP == NewNode(h, best.newAabb)
        newParent == madeP[2]
        madeL == NewNode(madeP[1], ObjBv(object))
        newLeaf == madeL[2]
        hm == madeL[1]
    IN  IF hm.full THEN hm
        ELSE IF best.node = h.root
        THEN AddObject([hm EXCEPT !.root = newParent,
                                  !.nodes[newParent].children = <<best.node, newLeaf>>],
                       newLeaf, object)
        ELSE
            LET hc == CommitPath(hm, path, index - 1)
                parentNode == path[index - 1].node
                child == IF hc.nodes[parentNode].children[1] /= best.node THEN 2 ELSE 1
                other == 3 - child
            IN  AddObject([hc EXCEPT
                             !.nodes[parentNode].children[child] = newParent,
                             !.nodes[newParent].children[child] = best.node,
                             !.nodes[newParent].children[other] = newLeaf],
                          newLeaf, object)

\* Bvh::Insert(object, config) once the search has recorded `path`
InsertAlong(h, path, object, config) ==
    IF path[Len(path)] = NullCosts THEN [h EXCEPT !.crashed = TRUE]
    ELSE
        LET leafNode == path[Len(path)]
            smallestCostIndex == SmallestCostIndex(path, Len(path))
        IN  IF leafNode.rootToNodeCost < path[smallestCostIndex].rootToNewParentCost
            THEN IF LeafTakes(h, leafNode, config)
                 THEN AppendToLeaf(h, path, object)
                 ELSE IF SplitLeaf(leafNode, config)
                 THEN NewParent(h, path, Len(path), object)
                 ELSE AppendToLeaf(h, path, object)
            ELSE NewParent(h, path, smallestCostIndex, object)

\* Bvh::Insert(object, config): the heaps it can end in
\* an Insert that leaves the object count as it was
CountObjectNever(h) == h

\* ++mObjectCount, the first statement of Insert
CountObject(h) == [h EXCEPT !.count = @ + 1]

InsertResults(h, object, config) ==
    LET h0 == CountObject(h)
    IN  IF h0.root = NULL
        THEN LET made == NewNode(h0, ObjBv(object))
             IN  IF made[1].full THEN {made[1]}
                 ELSE {AddObject([made[1] EXCEPT !.root = made[2]], made[2], object)}
        ELSE { InsertAlong(h0, path, object, config)
               : path \in CheapestPaths(h0, object,
                                        NodeCosts(h0, h0.root, object, 0, 0)) }

\* ------------------------------------------------------------------- Clear
\* lamdaClearObject applied along a list; next is read before the object is reset
RECURSIVE ClearList(_, _, _)
ClearList(os, object, fuel) ==
    IF object = NULL \/ fuel = 0 THEN os
    ELSE ClearList([os EXCEPT ![object] = NoInfo], os[object].next, fuel - 1)

\* TraverseLevelOrderObjects(lamdaClearObject) over the nodes ns
RECURSIVE ClearObjects(_, _, _)
ClearObjects(h, os, ns) ==
    IF ns = <<>> THEN os
    ELSE ClearObjects(h,
            IF IsLeaf(h, Head(ns))
            THEN ClearList(os, h.nodes[Head(ns)].firstObject,
                           2 * Cardinality(DOMAIN os) + 1)
            ELSE os,
            Tail(ns))

\* Bvh::Clear
ClearResult(h) ==
    IF h.root = NULL THEN h
    ELSE LET order == TraverseLevelOrder(h, h.root)
             gone == SeqSet(order)
         IN  [h EXCEPT !.objs = ClearObjects(h, h.objs, order),
                       !.nodes = [n \in NodeIds |-> IF n \in gone THEN NoNode ELSE @[n]],
                       !.alloc = @ \ gone,
                       !.root = NULL,
                       !.count = 0]

\* Bvh::Depth
Depth(h) == IF h.root = NULL THEN -1 ELSE NodeDepth(h, h.root)

\* Bvh::Size
Size(h) == IF h.root = NULL THEN 0 ELSE NodeSize(h, h.root)

\* ------------------------------------------------------------------- Query
\* a frustum is six planes {normal, dot_result}; a point p is on the inner side
\* of a plane when dot(normal, p) >= dot_result
Plane(normal, dot_result) == [normal |-> normal, dot_result |-> dot_result]

\* the frustum that is the box [lo, hi]
BoxFrustum(lo, hi) ==
    << Plane(<<1, 0, 0>>, lo[1]), Plane(<<-1, 0, 0>>, -hi[1]),
       Plane(<<0, 1, 0>>, lo[2]), Plane(<<0, -1, 0>>, -hi[2]),
       Plane(<<0, 0, 1>>, lo[3]), Plane(<<0, 0, -1>>, -hi[3]) >>

Frusta ==
    { BoxFrustum(<<-1, -1, -1>>, <<20, 20, 20>>),
      BoxFrustum(<<30, 30, 30>>, <<40, 40, 40>>),
      BoxFrustum(<<-1, -1, -1>>, <<3, 3, 3>>),
      BoxFrustum(<<5, -1, -1>>, <<9, 9, 9>>),
      << Plane(<<1, 1, 0>>, 7), Plane(<<-1, 0, 0>>, -20),
         Plane(<<0, 1, 0>>, -1), Plane(<<0, -1, 0>>, -20),
         Plane(<<0, 0, 1>>, -1), Plane(<<0, 0, -1>>, -20) >> }

\* signed distance (times |normal|) of the corner of bv farthest along the normal
PVertex(pl, bv) ==
    LET c == [i \in 1..3 |-> IF pl.normal[i] >= 0 THEN bv.max[i] ELSE bv.min[i]]
    IN  pl.normal[1] * c[1] + pl.normal[2] * c[2] + pl.normal[3] * c[3] - pl.dot_result

\* the same for the corner farthest against the normal
NVertex(pl, bv) ==
    LET c == [i \in 1..3 |-> IF pl.normal[i] >= 0 THEN bv.min[i] ELSE bv.max[i]]
    IN  pl.normal[1] * c[1] + pl.normal[2] * c[2] + pl.normal[3] * c[3] - pl.dot_result

\* Frustum::classify(aabb)
classify(frustum, bv) ==
    IF \E j \in 1..6 : PVertex(frustum[j], bv) < 0 THEN "eOUTSIDE"
    ELSE IF \A j \in 1..6 : NVertex(frustum[j], bv) >= 0 THEN "eINSIDE"
    ELSE "eINTERSECTING"

\* the ids of a sequence of objects
IdsOf(base, os) == [i \in 1..Len(os) |-> ObjIdFrom(base, os[i])]

\* the leaf branch of Query: the objects of the list that are not eOUTSIDE
VisibleOf(frustum, os) ==
    LET Keep(o) == classify(frustum, ObjBv(o)) /= "eOUTSIDE"
    IN  SelectSeq(os, Keep)

\* Query's loop body with eOUTSIDE handled like eINTERSECTING (no early skip)
VisitOutsideDescends(h, base, frustum, node) ==
    LET result == classify(frustum, h.nodes[node].bv)
    IN  IF result = "eINSIDE"
        THEN [push |-> <<>>, tests |-> 1,
              ids |-> IdsOf(base, TraverseLevelOrderObjects(h, node))]
        ELSE IF IsLeaf(h, node)
        THEN [push |-> <<>>, tests |-> 1 + ObjectCount(h, node),
              ids |-> IdsOf(base, VisibleOf(frustum, ObjectsOf(h, node)))]
        ELSE [push |-> h.nodes[node].children, tests |-> 1, ids |-> <<>>]

\* Query's loop body with eINSIDE handled like eINTERSECTING (no bulk report)
VisitInsideDescends(h, base, frustum, node) ==
    LET result == classify(frustum, h.nodes[node].bv)
    IN  IF result = "eOUTSIDE"
        THEN [push |-> <<>>, tests |-> 1, ids |-> <<>>]
        ELSE IF IsLeaf(h, node)
        THEN [push |-> <<>>, tests |-> 1 + ObjectCount(h, node),
              ids |-> IdsOf(base, VisibleOf(frustum, ObjectsOf(h, node)))]
        ELSE [push |-> h.nodes[node].children, tests |-> 1, ids |-> <<>>]

\* one iteration of Query's loop on a node that is not null: the children it
\* pushes, the ids it appends to objectsIds and the classify calls it makes
Visit(h, base, frustum, node) ==
    LET result == classify(frustum, h.nodes[node].bv)
    IN  IF result = "eOUTSIDE"
        THEN [push |-> <<>>, tests |-> 1, ids |-> <<>>]
        ELSE IF result = "eINSIDE"
        THEN [push |-> <<>>, tests |-> 1,
              ids |-> IdsOf(base, TraverseLevelOrderObjects(h, node))]
        ELSE IF IsLeaf(h, node)
        THEN [push |-> <<>>, tests |-> 1 + ObjectCount(h, node),
              ids |-> IdsOf(base, VisibleOf(frustum, ObjectsOf(h, node)))]
        ELSE [push |-> h.nodes[node].children, tests |-> 1, ids |-> <<>>]

\* the loop that counts a classify for the popped node before looking at it
QueryLoopNoNullTest(h, base, frustum, stack, objectsIds, tests) ==
    IF stack = <<>> THEN [ids |-> objectsIds, tests |-> tests]
    ELSE [ids |-> objectsIds, tests |-> tests + 1]

\* the while loop of Query; the top of the stack is its last element, and a
\* null pointer on top ends the loop (break)
RECURSIVE QueryLoop(_, _, _, _, _, _)
QueryLoop(h, base, frustum, stack, objectsIds, tests) ==
    IF stack = <<>> THEN [ids |-> objectsIds, tests |-> tests]
    ELSE
        LET node == stack[Len(stack)]
            rest == SubSeq(stack, 1, Len(stack) - 1)
        IN  IF node = NULL THEN [ids |-> objectsIds, tests |-> tests]
            ELSE CHOOSE r \in
                   {QueryLoop(h, base, frustum, rest \o v.push,
                              objectsIds \o v.ids, tests + v.tests) :
                       v \in {Visit(h, base, frustum, node)}} : TRUE

\* Bvh::Query(frustum): the ids returned and the classify calls made
QueryResult(h, base, frustum) == QueryLoop(h, base, frustum, <<h.root>>, <<>>, 0)

\* -------------------------------------------------------------- QueryDebug
Ray(start, dir) == [start |-> start, dir |-> dir]

Rays ==
    { Ray(<<-1, 1, 1>>, <<1, 0, 0>>),
      Ray(<<9, 1, 1>>, <<-1, 0, 0>>),
      Ray(<<1, 1, 1>>, <<0, 1, 0>>),
      Ray(<<-1, 1, 1>>, <<-1, 0, 0>>) }

\* the slab of axis i: <<tNear, tFar>>, or <<1, 0>> (empty) when the ray is
\* parallel to the slab and starts outside it; dir components are -1, 0 or 1
Slab(ray, bv, i) ==
    IF ray.dir[i] = 0
    THEN IF ray.start[i] < bv.min[i] \/ ray.start[i] > bv.max[i]
         THEN <<1, 0>> ELSE <<-FLT_MAX, FLT_MAX>>
    ELSE LET t1 == (bv.min[i] - ray.start[i]) * ray.dir[i]
             t2 == (bv.max[i] - ray.start[i]) * ray.dir[i]
         IN  <<Min2(t1, t2), Max2(t1, t2)>>

\* Ray::intersect(aabb): the entry time (0 from inside), -1 on a miss
intersect(ray, bv) ==
    LET s == [i \in 1..3 |-> Slab(ray, bv, i)]
        tMin == Max2(s[1][1], Max2(s[2][1], s[3][1]))
        tMax == Min2(s[1][2], Min2(s[2][2], s[3][2]))
    IN  IF \E i \in 1..3 : s[i][1] > s[i][2] THEN -1
        ELSE IF tMin > tMax \/ tMax < 0 THEN -1
        ELSE Max2(tMin, 0)

\* static_cast<int>(object->id)
ToInt(id) ==
    IF id.hi >= HalfTop THEN (id.hi - Half) * Half + id.lo ELSE id.hi * Half + id.lo

\* static_cast<unsigned>(closestIntersect)
ToUnsigned(i) == U32((i \div Half) % Half, i % Half)

\* the leaf loop's iteration recording a hit only when it is the nearest so far
LeafStepNearestOnly(base, ray, closest_only, object, st, shortest) ==
    LET time == intersect(ray, ObjBv(object))
        hit == time >= 0
    IN  [st |-> [closestIntersect |->
                     IF hit /\ time < st.bvhShortestTime
                     THEN ToInt(ObjIdFrom(base, object)) ELSE st.closestIntersect,
                 bvhShortestTime |->
                     IF hit /\ time < st.bvhShortestTime
                     THEN time ELSE st.bvhShortestTime,
                 all |-> IF hit /\ ~closest_only /\ time < st.bvhShortestTime
                         THEN Append(st.all, ObjIdFrom(base, object)) ELSE st.all,
                 tested |-> st.tested,
                 tests |-> st.tests + 1],
         time |-> IF hit /\ time < shortest THEN time ELSE shortest]

\* the leaf loop's iteration taking every hit as the closest so far
LeafStepLastHit(base, ray, closest_only, object, st, shortest) ==
    LET time == intersect(ray, ObjBv(object))
        hit == time >= 0
    IN  [st |-> [closestIntersect |->
                     IF hit THEN ToInt(ObjIdFrom(base, object)) ELSE st.closestIntersect,
                 bvhShortestTime |-> IF hit THEN time ELSE st.bvhShortestTime,
                 all |-> IF hit /\ ~closest_only
                         THEN Append(st.all, ObjIdFrom(base, object)) ELSE st.all,
                 tested |-> st.tested,
                 tests |-> st.tests + 1],
         time |-> IF hit /\ time < shortest THEN time ELSE shortest]

\* one iteration of the leaf loop of QueryNodesRay: st is what the lambda
\* captures by reference, shortest is nodeShortestTime
LeafStep(base, ray, closest_only, object, st, shortest) ==
    LET time == intersect(ray, ObjBv(object))
        hit == time >= 0
    IN  [st |-> [closestIntersect |->
                     IF hit /\ time < st.bvhShortestTime
                     THEN ToInt(ObjIdFrom(base, object)) ELSE st.closestIntersect,
                 bvhShortestTime |->
                     IF hit /\ time < st.bvhShortestTime
                     THEN time ELSE st.bvhShortestTime,
                 all |-> IF hit /\ ~closest_only
                         THEN Append(st.all, ObjIdFrom(base, object)) ELSE st.all,
                 tested |-> st.tested,
                 tests |-> st.tests + 1],
         time |-> IF hit /\ time < shortest THEN time ELSE shortest]

\* the leaf loop of QueryNodesRay over the objects os; the state after one
\* iteration is bound by the set constructor, so it is evaluated once
RECURSIVE LeafScan(_, _, _, _, _, _)
LeafScan(base, ray, closest_only, os, st, shortest) ==
    IF os = <<>> THEN [st |-> st, time |-> shortest]
    ELSE CHOOSE r \in {LeafScan(base, ray, closest_only, Tail(os), s.st, s.time) :
                          s \in {LeafStep(base, ray, closest_only, Head(os),
                                          st, shortest)}} : TRUE

\* the flag read the wrong way round: the far child is always visited by the
\* query asked for the closest hit only, and pruned in the other
VisitFarFlagInverted(closest_only, time, farT) ==
    closest_only \/ time < 0 \/ time > farT

\* the far child is visited only by the query that does not prune
VisitFarUnprunedOnly(closest_only, time, farT) == ~closest_only

\* the far child is visited after the near one returned `time`
VisitFar(closest_only, time, farT) == ~closest_only \/ time < 0 \/ time > farT

\* the tests of the children of `node`, which count and are recorded in
\* debug_tested_nodes
TestChildren(h, node, st) ==
    LET c0 == h.nodes[node].children[1]
        c1 == h.nodes[node].children[2]
        t0 == IF c0 /= NULL THEN <<c0>> ELSE <<>>
        t1 == IF c1 /= NULL THEN <<c1>> ELSE <<>>
    IN  [st EXCEPT !.tested = @ \o t0 \o t1, !.tests = @ + Len(t0) + Len(t1)]

\* the recursive lambda QueryNodesRay; the result of each call is bound by a
\* set constructor, so it is evaluated once
RECURSIVE QueryNodesRay(_, _, _, _, _, _)
QueryNodesRay(h, base, ray, closest_only, node, st) ==
    IF IsLeaf(h, node)
    THEN LeafScan(base, ray, closest_only, ObjectsOf(h, node), st, FLT_MAX)
    ELSE
        LET c0 == h.nodes[node].children[1]
            c1 == h.nodes[node].children[2]
            childFirstT == IF c0 /= NULL THEN intersect(ray, h.nodes[c0].bv) ELSE -1
            childSecondT == IF c1 /= NULL THEN intersect(ray, h.nodes[c1].bv) ELSE -1
            near == IF childFirstT < childSecondT THEN c0 ELSE c1
            far == IF childFirstT < childSecondT THEN c1 ELSE c0
            farT == IF childFirstT < childSecondT THEN childSecondT ELSE childFirstT
        IN  CHOOSE r \in
              {IF childFirstT < 0 /\ childSecondT < 0 THEN [st |-> sb, time |-> -1]
               ELSE IF childFirstT >= 0 /\ childSecondT >= 0
               THEN CHOOSE r2 \in
                      {IF VisitFar(closest_only, r1.time, farT)
                       THEN CHOOSE r3 \in
                              {[st |-> rf.st, time |-> Min2(rf.time, r1.time)] :
                                  rf \in {QueryNodesRay(h, base, ray, closest_only,
                                                        far, r1.st)}} : TRUE
                       ELSE r1 :
                          r1 \in {QueryNodesRay(h, base, ray, closest_only,
                                                near, sb)}} : TRUE
               ELSE IF childFirstT >= 0
               THEN QueryNodesRay(h, base, ray, closest_only, c0, sb)
               ELSE QueryNodesRay(h, base, ray, closest_only, c1, sb) :
                  sb \in {TestChildren(h, node, st)}} : TRUE

\* Bvh::QueryDebug(ray, closest_only, allIntersectedObjects, debug_tested_nodes):
\* ret is <<id>> or <<>> (std::nullopt)
QueryDebugResult(h, base, ray, closest_only) ==
    LET st0 == [closestIntersect |-> -1, bvhShortestTime |-> FLT_MAX,
                all |-> <<>>, tested |-> <<>>, tests |-> 0]
    IN  IF h.root = NULL
        THEN [ret |-> <<>>, all |-> <<>>, tested |-> <<>>, tests |-> 0]
        ELSE
            LET st1 == [st0 EXCEPT !.tested = <<h.root>>, !.tests = 1]
            IN  CHOOSE r \in
                  {IF st2.closestIntersect < 0
                   THEN [ret |-> <<>>, all |-> st2.all,
                         tested |-> st2.tested, tests |-> st2.tests]
                   ELSE [ret |-> <<ToUnsigned(st2.closestIntersect)>>,
                         all |-> IF closest_only
                                 THEN <<ToUnsigned(st2.closestIntersect)>>
                                 ELSE st2.all,
                         tested |-> st2.tested, tests |-> st2.tests] :
                      st2 \in {IF intersect(ray, h.nodes[h.root].bv) >= 0
                               THEN QueryNodesRay(h, base, ray, closest_only,
                                                  h.root, s1).st
                               ELSE s1 : s1 \in {st1}}} : TRUE

\* ------------------------------------------------------------ state machine
NoFrustum == <<>>
NoRay == <<>>

NoQuery ==
    /\ qFrustum' = NoFrustum
    /\ qResult' = <<>>
    /\ qTests' = 0

NoRayQuery ==
    /\ rRay' = NoRay
    /\ rClosestOnly' = FALSE
    /\ rReturn' = <<>>
    /\ rAll' = <<>>
    /\ rTested' = <<>>
    /\ rTests' = 0

\* the heap h becomes the state
SetHeap(h) ==
    /\ nodes' = h.nodes
    /\ allocated' = h.alloc
    /\ objs' = h.objs
    /\ mRoot' = h.root
    /\ mObjectCount' = h.count
    /\ crashed' = h.crashed
    /\ threw' = h.threw

\* Bvh::Bvh(), and the caller's objects as CreateObjects makes them
Init ==
    /\ scene \in Scenes
    /\ nodes = [n \in NodeIds |-> NoNode]
    /\ allocated = {}
    /\ objs = [o \in Objs |-> NoInfo]
    /\ mRoot = NULL
    /\ mObjectCount = 0
    /\ crashed = FALSE
    /\ threw = FALSE
    /\ inTree = {}
    /\ everPassed = {}
    /\ idBase = 0
    /\ rebuilds = 0
    /\ lastOp = "Bvh"
    /\ qFrustum = NoFrustum
    /\ qResult = <<>>
    /\ qTests = 0
    /\ rRay = NoRay
    /\ rClosestOnly = FALSE
    /\ rReturn = <<>>
    /\ rAll = <<>>
    /\ rTested = <<>>
    /\ rTests = 0

\* bvh.BuildTopDown(begin, end, config) with whatever the tree holds
BuildCall(range, config) ==
    /\ ~crashed
    /\ \E h \in BuildTopDownRec(Heap, range, config, NULL, 0) :
          /\ ~h.full
          /\ SetHeap(h)
    /\ inTree' = SeqSet(range)
    /\ everPassed' = everPassed \cup SeqSet(range)
    /\ UNCHANGED <<scene, idBase>>
    /\ lastOp' = "BuildTopDown"
    /\ NoQuery
    /\ NoRayQuery

\* bvh.BuildTopDown(begin, end, config) on an empty tree
BuildTopDown(range, config) ==
    /\ mRoot = NULL
    /\ BuildCall(range, config)
    /\ UNCHANGED rebuilds

\* bvh.BuildTopDown(begin, end, config) on a populated tree
Rebuild(range, config) ==
    /\ mRoot /= NULL
    /\ rebuilds < MaxRebuilds
    /\ BuildCall(range, config)
    /\ rebuilds' = rebuilds + 1

\* bvh.Insert(object, config) of an object that is not in the tree
Insert(object, config) ==
    /\ ~crashed
    /\ object \notin inTree
    /\ \E h \in InsertResults(Heap, object, config) :
          /\ ~h.full
          /\ SetHeap(h)
    /\ inTree' = inTree \cup {object}
    /\ everPassed' = everPassed \cup {object}
    /\ UNCHANGED <<scene, idBase, rebuilds>>
    /\ lastOp' = "Insert"
    /\ NoQuery
    /\ NoRayQuery

\* bvh.Clear()
Clear ==
    /\ ~crashed
    /\ SetHeap(ClearResult(Heap))
    /\ inTree' = {}
    /\ UNCHANGED <<scene, everPassed, idBase, rebuilds>>
    /\ lastOp' = "Clear"
    /\ NoQuery
    /\ NoRayQuery

\* bvh.Query(frustum), Stats reset before the call
Query(frustum) ==
    /\ ~crashed
    /\ LET r == QueryResult(Heap, idBase, frustum)
       IN  /\ qFrustum' = frustum
           /\ qResult' = r.ids
           /\ qTests' = r.tests
    /\ lastOp' = "Query"
    /\ NoRayQuery
    /\ UNCHANGED treeVars

\* bvh.QueryDebug(ray, closest_only, ...), Stats reset before the call
QueryDebug(ray, closest_only) ==
    /\ ~crashed
    /\ LET r == QueryDebugResult(Heap, idBase, ray, closest_only)
       IN  /\ rRay' = ray
           /\ rClosestOnly' = closest_only
           /\ rReturn' = r.ret
           /\ rAll' = r.all
           /\ rTested' = r.tested
           /\ rTests' = r.tests
    /\ lastOp' = "QueryDebug"
    /\ NoQuery
    /\ UNCHANGED treeVars

Next ==
    \/ \E range \in Ranges, config \in Configs : BuildTopDown(range, config)
    \/ \E object \in Objs, config \in Configs : Insert(object, config)
    \/ Clear
    \/ \E frustum \in Frusta : Query(frustum)
    \/ \E ray \in Rays, closest_only \in BOOLEAN : QueryDebug(ray, closest_only)

Spec == Init /\ [][Next]_vars

\* the tree's life with BuildTopDown also called on a tree that is not empty
NextRebuild ==
    \/ \E range \in Ranges, config \in Configs : BuildTopDown(range, config)
    \/ \E range \in Ranges, config \in Configs : Rebuild(range, config)
    \/ \E object \in Objs, config \in Configs : Insert(object, config)
    \/ Clear

SpecRebuild == Init /\ [][NextRebuild]_vars

\* bvh.BuildTopDown(begin, end, config, parentNode) by a caller that passes a
\* node of the tree whose two child slots are taken; the range may be empty
BuildTopDownUnder(range, config, parentNode) ==
    /\ ~crashed
    /\ parentNode \in allocated
    /\ nodes[parentNode].children[1] /= NULL
    /\ nodes[parentNode].children[2] /= NULL
    /\ \E h \in BuildTopDownRec(Heap, range, config, parentNode, 0) :
          /\ ~h.full
          /\ SetHeap(h)
    /\ UNCHANGED <<scene, inTree, everPassed, idBase, rebuilds>>
    /\ lastOp' = "BuildTopDownUnder"
    /\ NoQuery
    /\ NoRayQuery

\* the ranges a caller can pass, the empty one among them
RangesOrNone == Ranges \cup {<<>>}

\* the tree's life with BuildTopDown also called on full parent nodes
NextParent ==
    \/ \E range \in Ranges, config \in Configs : BuildTopDown(range, config)
    \/ \E object \in Objs, config \in Configs : Insert(object, config)
    \/ Clear
    \/ \E range \in RangesOrNone, config \in Configs, parentNode \in NodeIds :
          BuildTopDownUnder(range, config, parentNode)

SpecParent == Init /\ [][NextParent]_vars

\* the list of node n is well formed: acyclic, its members belong to n, it
\* ends at lastObject and prev mirrors next along it
WellFormedList(h, n) ==
    LET l == ObjectsOf(h, n)
    IN  /\ Len(l) <= Cardinality(DOMAIN h.objs)
        /\ h.nodes[n].lastObject = (IF l = <<>> THEN NULL ELSE l[Len(l)])
        /\ \A i \in 1..Len(l) :
              /\ h.objs[l[i]].node = n
              /\ h.objs[l[i]].prev = (IF i = 1 THEN NULL ELSE l[i - 1])

\* node->AddObject(object) by a caller that moves an object of the tree from
\* the node it belongs to into another node of the tree, while every list of
\* the tree is well formed
NodeAddObject(n, object) ==
    /\ ~crashed
    /\ n \in allocated
    /\ objs[object].node \in allocated
    /\ objs[object].node /= n
    /\ \A m \in allocated : WellFormedList(Heap, m)
    /\ SetHeap(AddObject(Heap, n, object))
    /\ UNCHANGED <<scene, inTree, everPassed, idBase, rebuilds>>
    /\ lastOp' = "AddObject"
    /\ NoQuery
    /\ NoRayQuery

\* the tree's life with objects also moved between nodes by Node::AddObject
NextMove ==
    \/ \E range \in Ranges, config \in Configs : BuildTopDown(range, config)
    \/ \E object \in Objs, config \in Configs : Insert(object, config)
    \/ Clear
    \/ \E n \in NodeIds, object \in Objs : NodeAddObject(n, object)

SpecMove == Init /\ [][NextMove]_vars

\* the tree's life when it is only ever built top-down and cleared
NextBuild ==
    \/ \E range \in Ranges, config \in Configs : BuildTopDown(range, config)
    \/ Clear

SpecBuild == Init /\ [][NextBuild]_vars

\* a caller whose objects have the ids 2^31, 2^31 + 1, ...
InitHighIds ==
    /\ scene \in Scenes
    /\ nodes = [n \in NodeIds |-> NoNode]
    /\ allocated = {}
    /\ objs = [o \in Objs |-> NoInfo]
    /\ mRoot = NULL
    /\ mObjectCount = 0
    /\ crashed = FALSE
    /\ threw = FALSE
    /\ inTree = {}
    /\ everPassed = {}
    /\ idBase = HalfTop
    /\ rebuilds = 0
    /\ lastOp = "Bvh"
    /\ qFrustum = NoFrustum
    /\ qResult = <<>>
    /\ qTests = 0
    /\ rRay = NoRay
    /\ rClosestOnly = FALSE
    /\ rReturn = <<>>
    /\ rAll = <<>>
    /\ rTested = <<>>
    /\ rTests = 0

SpecHighIds == InitHighIds /\ [][Next]_vars

\* a tree that only Insert builds, every call with the one config whose
\* maxDepth is 1; Clear empties it and the queries read it
DepthOneConfig == Config(U32Of(1), 1, 8)

NextInsertOnly ==
    \/ \E object \in Objs : Insert(object, DepthOneConfig)
    \/ Clear
    \/ \E frustum \in Frusta : Query(frustum)
    \/ \E ray \in Rays, closest_only \in BOOLEAN : QueryDebug(ray, closest_only)

SpecInsertOnly == Init /\ [][NextInsertOnly]_vars

\* the corner-case scenes: MaxSame objects that all have the same box
InitSame ==
    /\ scene \in SameScenes
    /\ nodes = [n \in NodeIds |-> NoNode]
    /\ allocated = {}
    /\ objs = [o \in SameObjs |-> NoInfo]
    /\ mRoot = NULL
    /\ mObjectCount = 0
    /\ crashed = FALSE
    /\ threw = FALSE
    /\ inTree = {}
    /\ everPassed = {}
    /\ idBase = 0
    /\ rebuilds = 0
    /\ lastOp = "Bvh"
    /\ qFrustum = NoFrustum
    /\ qResult = <<>>
    /\ qTests = 0
    /\ rRay = NoRay
    /\ rClosestOnly = FALSE
    /\ rReturn = <<>>
    /\ rAll = <<>>
    /\ rTested = <<>>
    /\ rTests = 0

\* the first n objects, as the tests pass them
FirstObjs(n) == [i \in 1..n |-> i]

\* the configurations BuildTopDown is given in the corner-case scenes
SameBuildConfigs == {DefaultConfig, cTopDownConfig}

\* the configurations Insert is given in the corner-case scenes
SameInsertConfigs == Configs \cup {cInsertConfig}

\* the objects Insert is given in the corner-case scenes, in any order
SameInserted == 1..MaxShuffled

NextSame ==
    \/ \E n \in SameObjs, config \in SameBuildConfigs :
          BuildTopDown(FirstObjs(n), config)
    \/ \E object \in SameInserted, config \in SameInsertConfigs :
          Insert(object, config)
    \/ Clear

SpecSame == InitSame /\ [][NextSame]_vars

\* ------------------------------------------------------------ verification
\* the nodes of the tree, in level order
TreeNodes == IF mRoot = NULL THEN <<>> ELSE TraverseLevelOrder(Heap, mRoot)

\* the children of node n that are present
ChildrenOf(n) == { nodes[n].children[i] : i \in 1..2 } \ {NULL}

\* node n has exactly one child
OneChild(n) == Cardinality(ChildrenOf(n)) = 1

\* C1 (containment): in every state the calls BuildTopDown (on an empty tree),
\* Insert and Clear lead to, the box of every internal node encloses the box of
\* each of its children, and the box of every leaf encloses the box of every
\* object of its list.
C1_Containment ==
    ~crashed =>
        \A n \in SeqSet(TreeNodes) :
            /\ \A c \in ChildrenOf(n) : Encloses(nodes[n].bv, nodes[c].bv)
            /\ IsLeaf(Heap, n) =>
                 \A o \in SeqSet(ObjectsOf(Heap, n)) : Encloses(nodes[n].bv, ObjBv(o))

\* an Insert has left a tree with an internal node of two children whose box is
\* larger than a child's, and a leaf that holds two objects
C1_Witness ==
    /\ ~crashed
    /\ lastOp = "Insert"
    /\ \E n \in SeqSet(TreeNodes) :
          /\ Cardinality(ChildrenOf(n)) = 2
          /\ \E c \in ChildrenOf(n) : nodes[c].bv /= nodes[n].bv
    /\ \E n \in SeqSet(TreeNodes) : IsLeaf(Heap, n) /\ ObjectCount(Heap, n) >= 2

\* C2 (partition): in every state BuildTopDown (on an empty tree) and Insert
\* lead to, the level-order walk of the leaves' object lists yields every object
\* handed to the tree exactly once; an empty tree holds no object.
C2_Partition ==
    ~crashed =>
        IF mRoot = NULL THEN inTree = {}
        ELSE LET walk == TraverseLevelOrderObjects(Heap, mRoot)
             IN  /\ SeqSet(walk) = inTree
                 /\ Len(walk) = Cardinality(inTree)

\* all the objects are in the tree, in at least two leaves, one of which holds
\* two of them
C2_Witness ==
    /\ ~crashed
    /\ inTree = Objs
    /\ Cardinality({ n \in SeqSet(TreeNodes) : IsLeaf(Heap, n) }) >= 2
    /\ \E n \in SeqSet(TreeNodes) : IsLeaf(Heap, n) /\ ObjectCount(Heap, n) >= 2

\* C3 (leaf/internal exclusivity): in every state a build or an insert leads
\* to, every internal node has ObjectCount() = 0 and every leaf has
\* ObjectCount() >= 1.
C3_LeafInternalExclusive ==
    ~crashed =>
        \A n \in SeqSet(TreeNodes) :
            IF IsLeaf(Heap, n) THEN ObjectCount(Heap, n) >= 1
            ELSE ObjectCount(Heap, n) = 0

\* a build has left a tree with an internal node and a leaf
C3_Witness ==
    /\ ~crashed
    /\ lastOp = "BuildTopDown"
    /\ \E n \in SeqSet(TreeNodes) : ~IsLeaf(Heap, n)
    /\ \E n \in SeqSet(TreeNodes) : IsLeaf(Heap, n) /\ ObjectCount(Heap, n) = 1

\* C4 (sibling shape): in every state BuildTopDown and Insert lead to, whatever
\* the BvhBuildConfig and the non-empty range, no node of the tree has exactly
\* one child.
C4_SiblingShape ==
    ~crashed => \A n \in SeqSet(TreeNodes) : ~OneChild(n)

\* the list of node n as its next links give it
ListOf(n) == ObjectsOf(Heap, n)

\* C5 (back-pointer consistency): in every state BuildTopDown (also on a
\* populated tree), Insert and Clear lead to, every object O with
\* O.bvhInfo.node = N is in N's list, that list is acyclic and ends at
\* N.lastObject, X.next = Y exactly when Y.prev = X, and firstObject.prev and
\* lastObject.next are null.
C5_BackPointers ==
    ~crashed =>
        /\ \A o \in Objs :
              objs[o].node /= NULL =>
                 LET n == objs[o].node
                 IN  /\ o \in SeqSet(ListOf(n))
                     /\ Len(ListOf(n)) <= NumObjs
                     /\ ListOf(n)[Len(ListOf(n))] = nodes[n].lastObject
                     /\ objs[nodes[n].firstObject].prev = NULL
                     /\ objs[nodes[n].lastObject].next = NULL
        /\ \A x, y \in Objs : objs[x].next = y <=> objs[y].prev = x

\* C6 (Clear): in the state Clear leaves, after any BuildTopDown and Insert
\* calls, root() is null, Depth() = -1, Size() = 0, objectCount() = 0 and every
\* object ever passed to a build or an insert has bvhInfo.node, prev and next
\* null.
C6_AfterClear ==
    (~crashed /\ lastOp = "Clear") =>
        /\ mRoot = NULL
        /\ Depth(Heap) = -1
        /\ Size(Heap) = 0
        /\ mObjectCount = 0
        /\ \A o \in everPassed : objs[o] = NoInfo

\* the objects of the tree whose own box the frustum does not classify eOUTSIDE
BruteForceVisible(frustum) ==
    { o \in inTree : classify(frustum, ObjBv(o)) /= "eOUTSIDE" }

\* C7 (Query is exact): whatever tree BuildTopDown or Insert produced and
\* whatever the frustum, Query returns the ids of exactly the objects whose box
\* is not eOUTSIDE, each id once.
C7_QueryBruteForce ==
    (~crashed /\ lastOp = "Query") =>
        /\ SeqSet(qResult) = { ObjIdFrom(idBase, o) : o \in BruteForceVisible(qFrustum) }
        /\ Len(qResult) = Cardinality(BruteForceVisible(qFrustum))

\* C8 (root outside): when the root's box classifies eOUTSIDE, Query returns
\* nothing and makes exactly one frustum-vs-AABB test.
C8_RootOutside ==
    (~crashed /\ lastOp = "Query" /\ mRoot /= NULL
        /\ classify(qFrustum, nodes[mRoot].bv) = "eOUTSIDE") =>
        /\ qResult = <<>>
        /\ qTests = 1

\* Query ran with the root eOUTSIDE on a tree of three objects in several nodes
C8_Witness ==
    /\ ~crashed
    /\ lastOp = "Query"
    /\ mRoot /= NULL
    /\ classify(qFrustum, nodes[mRoot].bv) = "eOUTSIDE"
    /\ Len(TreeNodes) >= 3
    /\ inTree = Objs

\* C9 (root inside): when the root's box classifies eINSIDE, Query returns
\* the id of every object of the tree, as many ids as there are objects, and
\* makes exactly one frustum-vs-AABB test.
C9_RootInside ==
    (~crashed /\ lastOp = "Query" /\ mRoot /= NULL
        /\ classify(qFrustum, nodes[mRoot].bv) = "eINSIDE") =>
        /\ SeqSet(qResult) = { ObjIdFrom(idBase, o) : o \in inTree }
        /\ Len(qResult) = Cardinality(inTree)
        /\ qTests = 1

\* Query ran with the root eINSIDE on a tree of three objects in several leaves
C9_Witness ==
    /\ ~crashed
    /\ lastOp = "Query"
    /\ mRoot /= NULL
    /\ classify(qFrustum, nodes[mRoot].bv) = "eINSIDE"
    /\ Cardinality({ n \in SeqSet(TreeNodes) : IsLeaf(Heap, n) }) >= 2
    /\ inTree = Objs

\* the objects of the tree whose box the ray hits
BruteForceHit(ray) == { o \in inTree : intersect(ray, ObjBv(o)) >= 0 }

\* C10 (all hits): whatever the tree and the ray, QueryDebug with
\* closest_only = false leaves in allIntersectedObjects the ids of exactly the
\* objects whose box the ray hits, each id once.
C10_AllIntersected ==
    (~crashed /\ lastOp = "QueryDebug" /\ ~rClosestOnly) =>
        /\ SeqSet(rAll) = { ObjIdFrom(idBase, o) : o \in BruteForceHit(rRay) }
        /\ Len(rAll) = Cardinality(BruteForceHit(rRay))

\* QueryDebug ran with closest_only = false on a tree of several leaves; the ray
\* hits two objects and misses one
C10_Witness ==
    /\ ~crashed
    /\ lastOp = "QueryDebug"
    /\ ~rClosestOnly
    /\ inTree = Objs
    /\ Cardinality({ n \in SeqSet(TreeNodes) : IsLeaf(Heap, n) }) >= 2
    /\ Cardinality(BruteForceHit(rRay)) = 2

\* the smallest entry time of the ray among the objects it hits
SmallestT(ray) ==
    CHOOSE t \in { intersect(ray, ObjBv(o)) : o \in BruteForceHit(ray) } :
        \A o \in BruteForceHit(ray) : t <= intersect(ray, ObjBv(o))

\* the brute-force scan in input order: the first object with the strictly
\* smallest entry time
BruteForceClosest(ray) ==
    CHOOSE o \in BruteForceHit(ray) :
        /\ intersect(ray, ObjBv(o)) = SmallestT(ray)
        /\ \A p \in BruteForceHit(ray) :
              intersect(ray, ObjBv(p)) = SmallestT(ray) => o <= p

Unpruned(ray) == QueryDebugResult(Heap, idBase, ray, FALSE)

\* C12 (pruning is exact): whatever the tree and the ray, QueryDebug with
\* closest_only = true returns the same optional id as QueryDebug with
\* closest_only = false on the same tree and ray.
C12_PrunedSameId ==
    (~crashed /\ lastOp = "QueryDebug" /\ rClosestOnly) =>
        rReturn = Unpruned(rRay).ret

\* QueryDebug with closest_only = true returned an id after fewer tests than
\* the query that does not prune makes: a far child was skipped
C12_Witness ==
    /\ ~crashed
    /\ lastOp = "QueryDebug"
    /\ rClosestOnly
    /\ rReturn /= <<>>
    /\ rTests < Unpruned(rRay).tests

\* the least and the greatest of a non-empty set of numbers
Least(S) == CHOOSE x \in S : \A y \in S : x <= y
Greatest(S) == CHOOSE x \in S : \A y \in S : x >= y

\* the componentwise union of the boxes of a non-empty set of objects
UnionBv(os) ==
    Aabb([i \in 1..3 |-> Least({ ObjBv(o).min[i] : o \in os })],
         [i \in 1..3 |-> Greatest({ ObjBv(o).max[i] : o \in os })])

\* C13 (root box): after BuildTopDown of a non-empty range and after every
\* Insert, the root's box is the exact componentwise union of the boxes of all
\* the objects of the tree.
C13_RootIsUnion ==
    (~crashed /\ mRoot /= NULL) => nodes[mRoot].bv = UnionBv(inTree)

\* an Insert has left a tree of all the objects whose root box is larger than
\* the box of each object
C13_Witness ==
    /\ ~crashed
    /\ lastOp = "Insert"
    /\ inTree = Objs
    /\ mRoot /= NULL
    /\ ~IsLeaf(Heap, mRoot)
    /\ \A o \in Objs : ObjBv(o) /= nodes[mRoot].bv

\* the box every object of a corner-case scene has
SameBv == ObjBv(1)

C15_SameBoxInsertsOneLeaf ==
    [][lastOp' = "Insert" =>
       \A object \in SameInserted, config \in SameInsertConfigs :
          ( /\ config.minObjects >= 1
            /\ scene \in SameScenes
            /\ mRoot = NULL \/ (Depth(Heap) = 0 /\ Size(Heap) = 1)
            /\ Insert(object, config) )
          => /\ Depth(Heap)' = 0
             /\ Size(Heap)' = 1
             /\ ObjectCount(Heap, mRoot)' = mObjectCount']_vars

\* what the debug printout and the tests see of the tree of h: depth, size,
\* and per node in level order its box, whether it is a leaf, and its objects
Shape(h) ==
    IF h.root = NULL THEN <<-1, 0, <<>>>>
    ELSE LET order == TraverseLevelOrder(h, h.root)
         IN  << NodeDepth(h, h.root), Len(order),
                [i \in 1..Len(order) |->
                   [bv |-> h.nodes[order[i]].bv,
                    leaf |-> IsLeaf(h, order[i]),
                    members |-> IF IsLeaf(h, order[i])
                                THEN SeqSet(ObjectsOf(h, order[i])) ELSE {}]] >>

\* a tree right after construction, with the caller's objects untouched
Fresh ==
    [nodes |-> [n \in NodeIds |-> NoNode], alloc |-> {},
     objs |-> [o \in DOMAIN objs |-> NoInfo], root |-> NULL, count |-> 0,
     crashed |-> FALSE, threw |-> FALSE, full |-> FALSE]

\* the trees BuildTopDown(range, config) can complete with on an empty tree
FreshShapes(range, config) ==
    { Shape(h) : h \in { g \in BuildTopDownRec(Fresh, range, config, NULL, 0) :
                            ~g.crashed /\ ~g.threw /\ ~g.full } }

\* no two objects of the range have equal centres along any axis: std::sort
\* then has one outcome whatever the axis
NoTies(range) ==
    \A i, j \in 1..Len(range), axis \in 1..3 :
        i /= j => center2(ObjBv(range[i]), axis) /= center2(ObjBv(range[j]), axis)

\* number of leaves of the tree whose list holds object o
LeavesListing(h, o) ==
    Cardinality({ i \in 1..Len(TraverseLevelOrder(h, h.root)) :
                    LET n == TraverseLevelOrder(h, h.root)[i]
                    IN  IsLeaf(h, n) /\ o \in SeqSet(ObjectsOf(h, n)) })

\* C16: a second BuildTopDown with the same range and config on the tree the
\* first one built completes without error (no crash, no exception) and leaves
\* a tree of the same depth, size, node boxes and leaf membership (one of the
\* trees the first call can leave; the very same when the sort has no ties),
\* objectCount() = the range's size and every object in exactly one leaf.
C16_RebuildIdempotent ==
    [][(lastOp = "BuildTopDown" /\ rebuilds = 0 /\ rebuilds' = 1) =>
       \A range \in Ranges, config \in Configs :
          ( /\ inTree = SeqSet(range)
            /\ Shape(Heap) \in FreshShapes(range, config)
            /\ Rebuild(range, config) )
          => /\ ~crashed'
             /\ ~threw'
             /\ Shape(Heap)' \in FreshShapes(range, config)
             /\ NoTies(range) => Shape(Heap)' = Shape(Heap)
             /\ mObjectCount' = Len(range)
             /\ \A o \in SeqSet(range) : LeavesListing(Heap, o)' = 1]_vars

\* a tree of five nodes built twice over the same three objects
C16_Witness ==
    /\ lastOp = "BuildTopDown"
    /\ rebuilds = 1
    /\ ~crashed
    /\ inTree = Objs
    /\ mObjectCount = NumObjs
    /\ Size(Heap) = 5
    /\ Cardinality(allocated) = 2 * Size(Heap)
    /\ Shape(Heap) \in FreshShapes(<<1, 2, 3>>, Config(UINT_MAX, 1, 0))

\* C17: the tree owns its nodes.  While the process runs, every node that is
\* allocated is reachable from the root and every reachable node is allocated
\* and met once by the level-order walk (so Clear frees it exactly once); with
\* no root, after Clear, no node is allocated any more.
C17_NodesOwned ==
    ~crashed =>
        /\ allocated = SeqSet(TreeNodes)
        /\ Cardinality(SeqSet(TreeNodes)) = Len(TreeNodes)
        /\ mRoot = NULL => allocated = {}

\* the call left the tree, the count, the node store and the objects untouched
NothingBegun ==
    /\ nodes' = nodes
    /\ allocated' = allocated
    /\ objs' = objs
    /\ mRoot' = mRoot
    /\ mObjectCount' = mObjectCount

\* C18 as stated: BuildTopDown with a parent node whose two child slots are
\* taken fails with an error and does not begin.
C18_FullParentThrows ==
    [][lastOp' = "BuildTopDownUnder" =>
       \A range \in RangesOrNone, config \in Configs, parentNode \in allocated :
          BuildTopDownUnder(range, config, parentNode)
          => (threw' /\ NothingBegun)]_vars

\* C18 amended: BuildTopDown with a parent node whose two child slots are
\* taken does not begin: no child slot, root, objectCount or bvhInfo changes
\* and the node allocated for the call is released.  It fails with an error
\* when the range is not empty; with an empty range it returns at once
\* without an error.
C18_FullParentLeavesTree ==
    [][lastOp' = "BuildTopDownUnder" =>
       \A range \in RangesOrNone, config \in Configs, parentNode \in allocated :
          BuildTopDownUnder(range, config, parentNode)
          => /\ NothingBegun
             /\ ~crashed'
             /\ threw' <=> range /= <<>>]_vars

\* the call on the full root of a tree of three objects has thrown
C18_Witness ==
    /\ lastOp = "BuildTopDownUnder"
    /\ threw
    /\ ~crashed
    /\ inTree = Objs
    /\ nodes[mRoot].children[1] /= NULL
    /\ nodes[mRoot].children[2] /= NULL
    /\ allocated = SeqSet(TreeNodes)

\* C19: on an empty tree Query returns no id and makes no frustum test, and
\* QueryDebug returns none, leaves both output vectors empty and makes no ray
\* test.
C19_EmptyTreeQueries ==
    mRoot = NULL =>
        /\ lastOp = "Query" => (qResult = <<>> /\ qTests = 0)
        /\ lastOp = "QueryDebug" =>
              (rReturn = <<>> /\ rAll = <<>> /\ rTested = <<>> /\ rTests = 0)

\* a query with the frustum that holds every object, after Clear
C19_Witness ==
    /\ mRoot = NULL
    /\ lastOp = "Query"
    /\ everPassed = Objs
    /\ \A o \in everPassed : classify(qFrustum, ObjBv(o)) /= "eOUTSIDE"
    /\ qResult = <<>>
    /\ qTests = 0

\* sequence s without the element o
RECURSIVE Without(_, _)
Without(s, o) ==
    IF s = <<>> THEN <<>>
    ELSE IF Head(s) = o THEN Without(Tail(s), o)
    ELSE <<Head(s)>> \o Without(Tail(s), o)

\* C20: Node::AddObject(O) on node N while O belongs to another node M, every
\* list being well formed: afterwards O is the last element of N's list with
\* node = N, M's list holds its former members without O in their order, and
\* M.firstObject, M.lastObject and the neighbours' links are patched (both
\* lists are well formed again).
C20_AddObjectMoves ==
    [][lastOp' = "AddObject" =>
       \A n \in NodeIds, object \in Objs :
          NodeAddObject(n, object)
          => /\ ListOf(n)' = Append(ListOf(n), object)
             /\ objs'[object].node = n
             /\ ListOf(objs[object].node)' = Without(ListOf(objs[object].node), object)
             /\ WellFormedList(Heap, n)'
             /\ WellFormedList(Heap, objs[object].node)']_vars

\* C21: BuildTopDown terminates for every non-empty range and every
\* configuration and leaves a finite tree: the call never ends in the crash
\* that stands for a recursion deeper than MaxLevel, which no range of the
\* model's size can account for.
C21_BuildTerminates ==
    lastOp = "BuildTopDown" => ~crashed

\* the level of node n below node m (0 for m itself), -1 when n is not below m
RECURSIVE LevelBelow(_, _, _)
LevelBelow(h, m, n) ==
    IF m = NULL THEN -1
    ELSE IF m = n THEN 0
    ELSE LET l0 == LevelBelow(h, h.nodes[m].children[1], n)
             l1 == LevelBelow(h, h.nodes[m].children[2], n)
         IN  IF l0 >= 0 THEN l0 + 1 ELSE IF l1 >= 0 THEN l1 + 1 ELSE -1

\* the depth of the tree when node n had just been attached: BuildTopDown on
\* an empty tree with every node freed takes its nodes in increasing order, so
\* the nodes there were are those with an id up to n
DepthWhenCreated(h, n) ==
    Greatest({ LevelBelow(h, h.root, m) : m \in { k \in h.alloc : k <= n } })

\* the number of objects in the leaves beneath node n
ObjectsBeneath(h, n) == Len(TraverseLevelOrderObjects(h, n))

\* the stop rule read off the finished tree h for configuration config
StopRuleShape(h, config) ==
    /\ \A n \in h.alloc :
          IsLeaf(h, n) <=>
             \/ ObjectsBeneath(h, n) <= config.minObjects
             \/ volume(h.nodes[n].bv) <= config.minVolume
             \/ GeqU32(U32Of(DepthWhenCreated(h, n)), config.maxDepth)
    /\ ~ GeqU32(U32Of(NodeDepth(h, h.root)), config.maxDepth)
          \/ U32Of(NodeDepth(h, h.root)) = config.maxDepth
    /\ \A n \in h.alloc :
          ~IsLeaf(h, n) => ObjectsBeneath(h, n) > config.minObjects

\* C22: a node BuildTopDown creates becomes a leaf exactly when its object
\* count <= min_objects, or its volume <= min_volume, or the depth of the tree
\* built so far >= max_depth; the finished tree has Depth() <= max_depth and
\* every internal node has more than min_objects objects beneath it.
C22_StopRule ==
    [][(lastOp' = "BuildTopDown" /\ ~crashed') =>
       \A range \in { r \in Ranges : SeqSet(r) = inTree' }, config \in Configs :
          BuildTopDown(range, config) => StopRuleShape(Heap, config)']_vars

\* three objects under a depth limit of 1: a leaf of two objects that is a
\* leaf by the depth test only
C22_Witness ==
    /\ lastOp = "BuildTopDown"
    /\ ~crashed
    /\ inTree = Objs
    /\ Depth(Heap) = 1
    /\ StopRuleShape(Heap, Config(U32Of(1), 1, 8))
    /\ \E n \in allocated :
          /\ IsLeaf(Heap, n)
          /\ ObjectCount(Heap, n) = 2
          /\ volume(nodes[n].bv) > 8

\* the objects in the leaves beneath child slot k of node n, none when the
\* slot is empty
BeneathChild(h, n, k) ==
    IF h.nodes[n].children[k] = NULL THEN <<>>
    ELSE TraverseLevelOrderObjects(h, h.nodes[n].children[k])

\* C23: in the tree BuildTopDown leaves, every node that split n objects has
\* floor(n/2) of them beneath children[0] and the other n - floor(n/2) beneath
\* children[1], and along the node's longest axis no centre beneath
\* children[0] is greater than a centre beneath children[1].
C23_MedianSplit ==
    (lastOp = "BuildTopDown" /\ ~crashed) =>
        \A n \in SeqSet(TreeNodes) :
            ~IsLeaf(Heap, n) =>
                LET count == ObjectsBeneath(Heap, n)
                    axis == longest_axis(nodes[n].bv)
                    low == BeneathChild(Heap, n, 1)
                    high == BeneathChild(Heap, n, 2)
                IN  /\ Len(low) = count \div 2
                    /\ Len(high) = count - (count \div 2)
                    /\ \A a \in SeqSet(low), b \in SeqSet(high) :
                          center2(ObjBv(a), axis) <= center2(ObjBv(b), axis)

\* node m and everything beneath it, objects included, is the same after the step
SubtreeUnchanged(m) ==
    \A k \in SeqSet(TraverseLevelOrder(Heap, m)) :
        /\ nodes'[k] = nodes[k]
        /\ \A o \in SeqSet(ObjectsOf(Heap, k)) : objs'[o] = objs[o]

\* the new internal node newParent stands where best stood, over best and the
\* fresh leaf newLeaf of object
StandsOver(newParent, newLeaf, best, object) ==
    /\ nodes'[newParent].bv = AabbMerge(nodes[best].bv, ObjBv(object))
    /\ nodes'[newParent].firstObject = NULL
    /\ nodes'[newLeaf].bv = ObjBv(object)
    /\ nodes'[newLeaf].children = <<NULL, NULL>>
    /\ ObjectsOf(Heap, newLeaf)' = <<object>>
    /\ SubtreeUnchanged(best)
    /\ IF best = mRoot
       THEN /\ mRoot' = newParent
            /\ nodes'[newParent].children = <<best, newLeaf>>
       ELSE /\ mRoot' = mRoot
            /\ \E parentNode \in SeqSet(TreeNodes), k \in 1..2 :
                  /\ nodes[parentNode].children[k] = best
                  /\ nodes'[parentNode].children[k] = newParent
                  /\ nodes'[parentNode].children[3 - k] = nodes[parentNode].children[3 - k]
                  /\ nodes'[newParent].children[k] = best
                  /\ nodes'[newParent].children[3 - k] = newLeaf

\* C24: an Insert that creates a new internal node above a node B puts it in
\* B's place (the root, or the same child slot of B's parent) with the merge
\* of B's and the object's boxes; B is its child in the same slot (the first
\* when B was the root), the other child is a fresh leaf of the object alone
\* with the object's box, and B and everything beneath it are unchanged.
C24_NewParentShape ==
    [][( /\ lastOp' = "Insert"
         /\ ~crashed'
         /\ mRoot /= NULL
         /\ Cardinality(allocated') > Cardinality(allocated) )
       => \E newParent, newLeaf \in allocated' \ allocated :
            /\ allocated' = allocated \cup {newParent, newLeaf}
            /\ newParent /= newLeaf
            /\ \E best \in SeqSet(TreeNodes), object \in inTree' \ inTree :
                  StandsOver(newParent, newLeaf, best, object)]_vars

\* a new internal node in the second child slot of the root
C24_Witness ==
    /\ lastOp = "Insert"
    /\ ~crashed
    /\ inTree = Objs
    /\ Size(Heap) = 5
    /\ ~IsLeaf(Heap, nodes[mRoot].children[2])
    /\ IsLeaf(Heap, nodes[mRoot].children[1])
    /\ nodes[mRoot].children[2] > nodes[mRoot].children[1]

\* the heap Insert works on once it has counted the object
Counted == [Heap EXCEPT !.count = @ + 1]

\* the step leaves the tree as heap h
StepLeaves(h) ==
    /\ nodes' = h.nodes
    /\ allocated' = h.alloc
    /\ objs' = h.objs
    /\ mRoot' = h.root
    /\ mObjectCount' = h.count

\* the step appended object to the leaf of path: no node is new, the object is
\* the last of the leaf's list and every node of the path has its new box
AppendedAlong(path, object) ==
    /\ allocated' = allocated
    /\ mRoot' = mRoot
    /\ ObjectsOf(Heap, path[Len(path)].node)'
         = Append(ObjectsOf(Heap, path[Len(path)].node), object)
    /\ \A i \in 1..Len(path) : nodes'[path[i].node].bv = path[i].newAabb

\* C25: when Insert reaches a leaf where appending is cheaper than the best
\* new parent, and the leaf holds at least min_objects objects at a level
\* below max_depth, the leaf is split only if its merged volume is strictly
\* greater than min_volume and the merge grows the leaf's box; in every other
\* case, a merged volume equal to min_volume among them, the object is
\* appended, no node is created and every node of the path gets its new box.
C25_SplitOnlyAboveMinVolume ==
    [][(lastOp' = "Insert" /\ ~crashed' /\ mRoot /= NULL) =>
       \A object \in inTree' \ inTree, config \in Configs :
          \A path \in CheapestPaths(Counted, object,
                                     NodeCosts(Counted, mRoot, object, 0, 0)) :
             ( /\ path[Len(path)] /= NullCosts
               /\ path[Len(path)].rootToNodeCost
                    < path[SmallestCostIndex(path, Len(path))].rootToNewParentCost
               /\ ~LeafTakes(Counted, path[Len(path)], config)
               /\ StepLeaves(InsertAlong(Counted, path, object, config)) )
             => \/ /\ volume(path[Len(path)].newAabb) > config.minVolume
                   /\ path[Len(path)].newGeometricsChange > 0
                \/ AppendedAlong(path, object)]_vars

\* C26: on the same tree and ray, QueryDebug with closest_only = true makes
\* no more ray tests than with closest_only = false, and the nodes it records
\* in debug_tested_nodes are among those the unpruned query records.
C26_PrunedTestsNoMore ==
    (lastOp = "QueryDebug" /\ rClosestOnly /\ ~crashed) =>
        /\ rTests <= Unpruned(rRay).tests
        /\ SeqSet(rTested) \subseteq SeqSet(Unpruned(rRay).tested)

\* a pruned query that hit an object and tested fewer nodes than the unpruned
C26_Witness ==
    /\ lastOp = "QueryDebug"
    /\ rClosestOnly
    /\ ~crashed
    /\ rReturn /= <<>>
    /\ rTests < Unpruned(rRay).tests
    /\ SeqSet(rTested) /= SeqSet(Unpruned(rRay).tested)

\* C27: QueryDebug returns the id of the closest object hit for every id of
\* the unsigned 32-bit range: when the ray hits an object, also one with an id
\* of 2^31 or more, an id is returned, and it is the exact id of an object
\* with the smallest entry time.
C27_HighIdsReturned ==
    (~crashed /\ lastOp = "QueryDebug" /\ BruteForceHit(rRay) /= {}) =>
        /\ Len(rReturn) = 1
        /\ \E o \in BruteForceHit(rRay) :
              /\ rReturn[1] = ObjIdFrom(idBase, o)
              /\ intersect(rRay, ObjBv(o)) = SmallestT(rRay)

\* Bvh::Empty
Empty(h) == h.root = NULL /\ h.count = 0

\* the objects TraverseLevelOrderObjects hands to its callback, counted
WalkedCount(h) ==
    IF h.root = NULL THEN 0 ELSE Len(TraverseLevelOrderObjects(h, h.root))

\* C28: objectCount() equals the number of objects found by walking the
\* leaves' object lists after any sequence of BuildTopDown (on an empty or a
\* populated tree), Insert of objects not in the tree, and Clear; and Empty()
\* is true exactly when root() is null.
C28_CountMatchesWalk ==
    ~crashed =>
        /\ mObjectCount = WalkedCount(Heap)
        /\ Empty(Heap) <=> mRoot = NULL

C28_Witness ==
    /\ ~crashed
    /\ rebuilds > 0
    /\ lastOp = "Insert"
    /\ mObjectCount = NumObjs
    /\ WalkedCount(Heap) = NumObjs
    /\ ~Empty(Heap)

\* C29: a tree built only by Insert calls that all use the same config never
\* exceeds the configured depth limit: after every Insert, Depth() is at most
\* config.maxDepth (here the config with maxDepth = 1).
C29_InsertKeepsDepth ==
    (~crashed /\ lastOp = "Insert") =>
        GeqU32(DepthOneConfig.maxDepth, U32Of(Depth(Heap)))

\* the object `object` is the last one of the list of the leaf it is in, a
\* node of the level order `order` of the tree
LastOfItsLeaf(h, order, object) ==
    LET leaf == h.objs[object].node
    IN  /\ leaf \in SeqSet(order)
        /\ IsLeaf(h, leaf)
        /\ \E list \in {ObjectsOf(h, leaf)} :
              list /= <<>> /\ list[Len(list)] = object
        /\ h.nodes[leaf].lastObject = object

\* C30: Insert(O) on a non-empty tree changes no existing membership: every
\* object inserted before stays in the same leaf node and in the same
\* relative order in that leaf's list; O is the only object whose
\* bvhInfo.node changes, and O is the last object of its leaf's list.
C30_InsertKeepsMembership ==
    [][( /\ lastOp' = "Insert"
         /\ ~crashed'
         /\ mRoot /= NULL )
       => \E O \in inTree' \ inTree :
            /\ inTree' = inTree \cup {O}
            /\ \A o \in DOMAIN objs \ {O} : objs'[o].node = objs[o].node
            /\ objs'[O].node /= objs[O].node
            /\ \E after \in {TreeNodes'}, h \in {Heap'} :
                  /\ \A n \in SeqSet(TreeNodes) :
                        /\ n \in SeqSet(after)
                        /\ \E list \in {ObjectsOf(h, n)} :
                              Without(list, O) = ListOf(n)
                  /\ LastOfItsLeaf(h, after, O)]_vars

C30_Witness ==
    /\ lastOp = "Insert"
    /\ ~crashed
    /\ mObjectCount = NumObjs
    /\ Size(Heap) = 3
    /\ \E n \in SeqSet(TreeNodes) : IsLeaf(Heap, n) /\ Len(ListOf(n)) = 2

====
